---- MODULE Spec2Model ----
(***************************************************************************)
(* Checkout, payment-gateway retry and webhook reconciliation of the       *)
(* e-commerce API (orderController, cartController, adminController,       *)
(* webhookAuth, services/midtrans), over one MariaDB store.                *)
(*                                                                         *)
(* The store is modelled at the level the handlers use it: committed rows  *)
(* (stock, carts, orders), the uncommitted writes of every open            *)
(* transaction, and the InnoDB row lock a write takes on a product row     *)
(* until its transaction ends.  A plain SELECT is a non-locking read of    *)
(* committed data (REPEATABLE READ, the dialect default; database.ts sets  *)
(* no isolation level); an UPDATE reads the current row under its lock.    *)
(* Every `await` of a handler that touches shared rows is a step of its    *)
(* own, so that requests interleave exactly where the server lets them.    *)
(*                                                                         *)
(* Money is counted in cents (DECIMAL(10,2) columns).                      *)
(***************************************************************************)
EXTENDS Integers, Sequences, FiniteSets, TLC

(* ---------------------------- bounds ---------------------------------- *)
NumUsers == 2        \* registered customers 1..NumUsers
NumProducts == 2     \* catalogue rows 1..NumProducts
NumProcs == 2        \* checkout requests (each slot serves one request)
NumHooks == 2        \* webhook deliveries (each slot serves one request)
NumCartReqs == 3     \* cart requests followed statement by statement (one per slot)
InitStock == 5       \* stock of every product when the server starts
InitPrice == 1050    \* unit price (cents) of every product at start
MaxQty == 3          \* largest quantity of one cart line
MaxLines == 2        \* most lines in one cart
MaxClock == 1        \* Date.now() takes the values 0..MaxClock
MaxAdminOps == 1     \* admin product updates
MaxCartOps == 2      \* cart requests (add, update, remove)
MaxRetriesArg == 6   \* createTransactionWithRetry is called with maxRetries 0..MaxRetriesArg

(* ------------------------ program constants --------------------------- *)
maxRetries == 3      \* createTransactionWithRetry's default
PoolMax == 5         \* sequelize pool.max

Users == 1..NumUsers
TokenIds == 1..(NumUsers + 1)  \* ids a valid JWT can carry; the last has no row
Products == 1..NumProducts
Procs == 1..NumProcs
Hooks == 1..NumHooks
CartReqs == 1..NumCartReqs

MIDTRANS_SERVER_KEY == "K"

(* ----------------------------- state ---------------------------------- *)
VARIABLES
  stock,     \* products.stock, committed value per product
  price,     \* products.price, committed value per product (cents)
  carts,     \* cart_items of each user's cart, committed, in id order
  orders,    \* orders table, committed, in id order
  lock,      \* row lock on each product row: Free or the holding transaction
  ck,        \* checkout requests: position and locals of each
  wh,        \* webhook requests: position and locals of each
  clock,     \* Date.now() when it was last read
  adminOps,  \* number of admin product updates served so far
  cartOps,   \* number of cart requests served so far
  gw,        \* one call of createTransactionWithRetry, followed on its own
  rq,        \* the GET /orders or GET /orders/:orderId request being served
  deleted,   \* ids of the products whose row product.destroy() removed
  cr         \* cart requests followed statement by statement: position and locals

vars == <<stock, price, carts, orders, lock, ck, wh, clock, adminOps, cartOps, gw, rq,
         deleted, cr>>

Free == <<>>
CkTx(p) == <<"checkout", p>>
WhTx(h) == <<"rollbackStock", h>>

NoWrites == [x \in {} |-> 0]

IdleCk ==
  [pc |-> "idle", user |-> 0, items |-> <<>>, i |-> 0, writes |-> NoWrites,
   totalAmount |-> 0, orderItems |-> <<>>, midtransItems |-> <<>>,
   orderId |-> "", attempt |-> 0, error |-> "", res |-> 0, message |-> <<>>,
   missing |-> {}]

\* A cart request: `raw` is the quantity as the body carries it (a string, as
\* a sequence of characters), `quantity` the parsed number, `stock` the
\* product's stock as the request read it, `line` and `lineQty` the cart line
\* CartItem.findOne returned (0 if none) and its quantity, `written` the
\* quantity the request saved.
IdleCr ==
  [pc |-> "idle", op |-> "", user |-> 0, productId |-> 0, raw |-> <<>>,
   quantity |-> 0, stock |-> 0, line |-> 0, lineQty |-> 0, written |-> 0,
   res |-> 0]

\* `status` is order.status as Order.findOne read it, `live` the
\* transaction_status the payment processor reported, `error` what
\* getTransactionStatus threw, `listed` the ids of the orders GET /orders
\* returned.
IdleRq ==
  [pc |-> "idle", user |-> 0, id |-> 0, status |-> "", live |-> "",
   listed |-> {}, error |-> "", warning |-> "", res |-> 0]

\* `caught` is the error rollbackStock's catch block logged, "" if none.
IdleWh ==
  [pc |-> "idle", body |-> <<>>, order |-> 0, loaded |-> "", orderStatus |-> "",
   items |-> <<>>, i |-> 0, readStock |-> 0, tx |-> "none", writes |-> NoWrites,
   caught |-> "", res |-> 0]

\* `errors` are the kinds of the attempts that failed, `waits` the delays (ms)
\* slept between attempts, `result` what the call returned or threw.
IdleGw ==
  [pc |-> "idle", maxRetries |-> 0, i |-> 0, calls |-> 0, errors |-> <<>>,
   waits |-> <<>>, result |-> ""]

Init ==
  /\ stock = [x \in Products |-> InitStock]
  /\ price = [x \in Products |-> InitPrice]
  /\ carts = [u \in Users |-> <<>>]
  /\ orders = <<>>
  /\ lock = [x \in Products |-> Free]
  /\ ck = [p \in Procs |-> IdleCk]
  /\ wh = [h \in Hooks |-> IdleWh]
  /\ clock = 0
  /\ adminOps = 0
  /\ cartOps = 0
  /\ gw = IdleGw
  /\ rq = IdleRq
  /\ deleted = {}
  /\ cr = [c \in CartReqs |-> IdleCr]

(* ------------------------- connection pool ----------------------------- *)
\* A transaction keeps its pooled connection from sequelize.transaction()
\* until commit or rollback.
CkOpen(p) == ck[p].pc \in {"items", "gateway"}
PoolUsed ==
  Cardinality({p \in Procs : CkOpen(p)}) + Cardinality({h \in Hooks : wh[h].tx = "open"})
PoolFree == PoolUsed < PoolMax

(* ------------------------------ cart ----------------------------------- *)
\* Index of the first line of `lines` for product x, 0 if none (CartItem.findOne).
RECURSIVE FindLine(_, _, _)
FindLine(lines, x, k) ==
  IF k > Len(lines) THEN 0
  ELSE IF lines[k].productId = x THEN k ELSE FindLine(lines, x, k + 1)

RemoveAt(s, k) == [j \in 1..(Len(s) - 1) |-> IF j < k THEN s[j] ELSE s[j + 1]]

\* cartController.addItemToCart with a body the validator accepts.
AddItemToCart(u, x, q) ==
  /\ cartOps < MaxCartOps
  /\ PoolFree
  /\ x \notin deleted
  /\ stock[x] >= q
  /\ LET k == FindLine(carts[u], x, 1) IN
       IF k # 0
       THEN /\ carts[u][k].quantity + q <= MaxQty
            /\ carts' = [carts EXCEPT ![u][k].quantity = @ + q]
       ELSE /\ Len(carts[u]) < MaxLines
            /\ carts' = [carts EXCEPT ![u] = Append(@, [productId |-> x, quantity |-> q])]
  /\ cartOps' = cartOps + 1
  /\ UNCHANGED <<stock, price, orders, lock, ck, wh, clock, adminOps, gw, rq, deleted, cr>>

\* cartController.updateCartItem
UpdateCartItem(u, x, q) ==
  /\ cartOps < MaxCartOps
  /\ PoolFree
  /\ LET k == FindLine(carts[u], x, 1) IN
       /\ k # 0
       /\ stock[x] >= q
       /\ carts' = [carts EXCEPT ![u][k].quantity = q]
  /\ cartOps' = cartOps + 1
  /\ UNCHANGED <<stock, price, orders, lock, ck, wh, clock, adminOps, gw, rq, deleted, cr>>

\* cartController.removeFromCart
RemoveFromCart(u, x) ==
  /\ cartOps < MaxCartOps
  /\ PoolFree
  /\ LET k == FindLine(carts[u], x, 1) IN
       /\ k # 0
       /\ carts' = [carts EXCEPT ![u] = RemoveAt(@, k)]
  /\ cartOps' = cartOps + 1
  /\ UNCHANGED <<stock, price, orders, lock, ck, wh, clock, adminOps, gw, rq, deleted, cr>>

(* --------------------------- cart requests ----------------------------- *)
Digits == {"0", "1", "2", "3", "4", "5", "6", "7", "8", "9"}

DigitValue(ch) ==
  CASE ch = "1" -> 1 [] ch = "2" -> 2 [] ch = "3" -> 3 [] ch = "4" -> 4
    [] ch = "5" -> 5 [] ch = "6" -> 6 [] ch = "7" -> 7 [] ch = "8" -> 8
    [] ch = "9" -> 9 [] OTHER -> 0

\* /^\d+$/.test(raw)
IsDigits(raw) == raw # <<>> /\ \A k \in 1..Len(raw) : raw[k] \in Digits

RECURSIVE ParseDigits(_)
ParseDigits(raw) ==
  IF raw = <<>> THEN 0
  ELSE 10 * ParseDigits(SubSeq(raw, 1, Len(raw) - 1)) + DigitValue(raw[Len(raw)])

\* parseInt(raw) of a string of digits with an optional sign
ParseInt(raw) ==
  IF raw # <<>> /\ Head(raw) = "-" THEN 0 - ParseDigits(Tail(raw)) ELSE ParseDigits(raw)

\* addToCartSchema.quantity and updateCartItemSchema.quantity
QuantitySchema(raw) == IsDigits(raw) /\ ParseInt(raw) >= 1

\* A route that lets every quantity through to the model.
QuantityNeverRejected(raw) == FALSE

\* The quantity is refused with 400: by the route's validator middleware, or
\* else by the controller's own check (!quantity || quantity < 1).
QuantityRejected(raw) == ~QuantitySchema(raw) \/ ParseInt(raw) = 0 \/ ParseInt(raw) < 1

\* CartItem.quantity's validate: { min: 1 }
QuantityValid(q) == q >= 1

\* product.stock < quantity: the check of addItemToCart and updateCartItem, on
\* the quantity of the request
StockShort(read, q) == read < q

\* POST /cart up to the stock check (validateAddToCart, addItemToCart lines
\* 12-32).  Request slots are taken in order of arrival.
CartAddStart(c, u, x, raw) ==
  /\ cr[c].pc = "idle"
  /\ \A r \in CartReqs : r < c => cr[r].pc # "idle"
  /\ PoolFree
  /\ LET r == [IdleCr EXCEPT !.op = "add", !.user = u, !.productId = x, !.raw = raw]
     IN cr' = [cr EXCEPT ![c] =
          IF QuantityRejected(raw) THEN [r EXCEPT !.pc = "done", !.res = 400]
          ELSE IF x \in deleted
          THEN [r EXCEPT !.pc = "done", !.quantity = ParseInt(raw), !.res = 404]
          ELSE IF StockShort(stock[x], ParseInt(raw))
          THEN [r EXCEPT !.pc = "done", !.quantity = ParseInt(raw), !.stock = stock[x],
                         !.res = 400]
          ELSE [r EXCEPT !.pc = "find", !.quantity = ParseInt(raw), !.stock = stock[x]]]
  /\ UNCHANGED <<stock, price, carts, orders, lock, ck, wh, clock, adminOps, cartOps, gw, rq, deleted>>

\* addItemToCart, lines 34-41: CartItem.findOne for the cart and product.
CartAddFind(c) ==
  /\ cr[c].pc = "find"
  /\ PoolFree
  /\ LET k == FindLine(carts[cr[c].user], cr[c].productId, 1)
         q == IF k = 0 THEN 0 ELSE carts[cr[c].user][k].quantity
     IN cr' = [cr EXCEPT ![c] = [@ EXCEPT !.pc = "write", !.line = k, !.lineQty = q]]
  /\ UNCHANGED <<stock, price, carts, orders, lock, ck, wh, clock, adminOps, cartOps, gw, rq, deleted>>

\* addItemToCart, lines 43-50: existingCartItem.quantity += quantity and
\* save(), which writes the sum to the row it read, or CartItem.create.  A
\* quantity the model's validator refuses throws: the catch block answers 500.
CartAddWrite(c) ==
  /\ cr[c].pc = "write"
  /\ PoolFree
  /\ LET u == cr[c].user
         k == cr[c].line
         v == cr[c].lineQty + cr[c].quantity
     IN IF ~QuantityValid(v)
        THEN /\ cr' = [cr EXCEPT ![c] = [@ EXCEPT !.pc = "done", !.res = 500]]
             /\ carts' = carts
        ELSE /\ cr' = [cr EXCEPT ![c] = [@ EXCEPT !.pc = "done", !.written = v, !.res = 200]]
             /\ carts' = IF k = 0
                         THEN [carts EXCEPT ![u] = Append(@, [productId |-> cr[c].productId,
                                                               quantity |-> v])]
                         ELSE IF k <= Len(carts[u]) /\ carts[u][k].productId = cr[c].productId
                         THEN [carts EXCEPT ![u][k].quantity = v]
                         ELSE carts
  /\ UNCHANGED <<stock, price, orders, lock, ck, wh, clock, adminOps, cartOps, gw, rq, deleted>>

\* PUT /cart/:productId (validateUpdateCartItem, updateCartItem lines 122-161)
CartUpdate(c, u, x, raw) ==
  /\ cr[c].pc = "idle"
  /\ \A r \in CartReqs : r < c => cr[r].pc # "idle"
  /\ PoolFree
  /\ LET r == [IdleCr EXCEPT !.op = "update", !.user = u, !.productId = x, !.raw = raw]
         k == FindLine(carts[u], x, 1)
     IN IF QuantityRejected(raw)
        THEN /\ cr' = [cr EXCEPT ![c] = [r EXCEPT !.pc = "done", !.res = 400]]
             /\ carts' = carts
        ELSE IF k = 0
        THEN /\ cr' = [cr EXCEPT ![c] = [r EXCEPT !.pc = "done", !.quantity = ParseInt(raw),
                                                  !.res = 404]]
             /\ carts' = carts
        ELSE IF x \in deleted \/ StockShort(stock[x], ParseInt(raw))
        THEN /\ cr' = [cr EXCEPT ![c] = [r EXCEPT !.pc = "done", !.quantity = ParseInt(raw),
                                                  !.stock = stock[x], !.res = 400]]
             /\ carts' = carts
        ELSE /\ cr' = [cr EXCEPT ![c] = [r EXCEPT !.pc = "done", !.quantity = ParseInt(raw),
                                                  !.stock = stock[x], !.line = k,
                                                  !.lineQty = carts[u][k].quantity,
                                                  !.written = ParseInt(raw), !.res = 200]]
             /\ carts' = [carts EXCEPT ![u][k].quantity = ParseInt(raw)]
  /\ UNCHANGED <<stock, price, orders, lock, ck, wh, clock, adminOps, cartOps, gw, rq, deleted>>

(* ----------------------------- checkout -------------------------------- *)
ReleaseLocks(tx) == [x \in Products |-> IF lock[x] = tx THEN Free ELSE lock[x]]

\* The row value an open transaction's statement sees: its own write if it
\* has one, the committed value otherwise.
Current(writes, x) == IF x \in DOMAIN writes THEN writes[x] ELSE stock[x]

\* The committed stock once a transaction's writes are committed.
Committed(writes) == [x \in Products |-> Current(writes, x)]

SetWrite(writes, x, v) == [y \in DOMAIN writes \cup {x} |-> IF y = x THEN v ELSE writes[y]]

\* `ORDER-${Date.now()}-${userId}`
OrderRef(now, u) == "ORDER-" \o ToString(now) \o "-" \o ToString(u)

\* Math.round of an amount in cents to whole currency units.
MathRound(cents) == (cents + 50) \div 100

\* A loop that decrements without looking at the stock it read.
NoStockCheck(item) == FALSE

\* product.stock < item.quantity, on the values the cart query returned
InsufficientStock(item) == item.stock < item.quantity

\* sequelize.literal(`stock - ${item.quantity}`)
StockLiteral(cur, q) == cur - q

\* A line total computed from the whole-unit price sent to the gateway.
ItemTotalRounded(item) == MathRound(item.price) * 100 * item.quantity

\* parseFloat(product.price) * item.quantity, in cents
ItemTotal(item) == item.price * item.quantity

\* What a finished request keeps: who asked, the cart as it was read, the
\* reference it generated, the error its catch block caught and the response.
Finished(c, code, msg) ==
  [IdleCk EXCEPT !.pc = "done", !.user = c.user, !.items = c.items,
                 !.orderId = c.orderId, !.error = c.error, !.res = code,
                 !.message = msg, !.missing = c.missing]

\* A catch block that answers without transaction.rollback() undoing the
\* decrements: the transaction's writes reach the committed stock.
CheckoutKeepsWrites(p, code, msg, err) ==
  /\ ck' = [ck EXCEPT ![p] = Finished([@ EXCEPT !.error = err], code, msg)]
  /\ stock' = Committed(ck[p].writes)
  /\ lock' = ReleaseLocks(CkTx(p))
  /\ UNCHANGED <<price, carts, orders, wh, clock, adminOps, cartOps, gw, rq, deleted, cr>>

\* transaction.rollback() followed by the response: the transaction's writes are
\* discarded and its row locks released.  `err` is the error caught, "" on the
\* paths that return before the catch block.
CheckoutRollback(p, code, msg, err) ==
  /\ ck' = [ck EXCEPT ![p] = Finished([@ EXCEPT !.error = err], code, msg)]
  /\ lock' = ReleaseLocks(CkTx(p))
  /\ UNCHANGED <<stock, price, carts, orders, wh, clock, adminOps, cartOps, gw, rq, deleted, cr>>

\* The cart query of lines 54-70: every line with its product's id, price, stock.
CartWithProducts(u) ==
  [k \in 1..Len(carts[u]) |->
     [productId |-> carts[u][k].productId,
      quantity |-> carts[u][k].quantity,
      stock |-> stock[carts[u][k].productId],
      price |-> price[carts[u][k].productId]]]

\* checkout, lines 43-85: open the transaction, look the user up, read the cart
\* with its lines and their products (one consistent read).  Request slots are
\* taken in order of arrival.
CheckoutStart(p, u) ==
  /\ ck[p].pc = "idle"
  /\ \A r \in Procs : r < p => ck[r].pc # "idle"
  /\ PoolFree
  /\ IF u \notin Users
     THEN ck' = [ck EXCEPT ![p] = Finished([@ EXCEPT !.user = u], 404, <<"User not found">>)]
     ELSE IF carts[u] = <<>>
     THEN ck' = [ck EXCEPT ![p] = Finished([@ EXCEPT !.user = u], 400, <<"Cart is empty">>)]
     ELSE ck' = [ck EXCEPT ![p] = [@ EXCEPT !.pc = "items", !.user = u, !.i = 1,
                                            !.items = CartWithProducts(u)]]
  /\ UNCHANGED <<stock, price, carts, orders, lock, wh, clock, adminOps, cartOps, gw, rq, deleted, cr>>

\* checkout, lines 87-135: one turn of the loop over the cart lines; after the
\* last line the reference is generated and the pending order row is written
\* in the transaction, and the gateway is called.  `now` is Date.now() at
\* line 124: the clock never runs backwards.  Product.update on a product
\* whose row was deleted after the cart was read matches no row: it writes
\* and locks nothing and throws nothing (`missing` records the product).
CheckoutItem(p, now) ==
  /\ ck[p].pc = "items"
  /\ LET item == ck[p].items[ck[p].i]
         x == item.productId
         last == ck[p].i = Len(ck[p].items)
     IN IF InsufficientStock(item)
        THEN /\ now = clock
             /\ CheckoutRollback(p, 400, <<"Insufficient stock for", x>>, "")
        ELSE /\ now = clock \/ last
             /\ clock' = now
             /\ x \notin deleted => lock[x] \in {Free, CkTx(p)}
             /\ lock' = IF x \in deleted THEN lock ELSE [lock EXCEPT ![x] = CkTx(p)]
             /\ ck' = [ck EXCEPT ![p] = [@ EXCEPT
                  !.writes = IF x \in deleted THEN @
                             ELSE SetWrite(@, x, StockLiteral(Current(@, x), item.quantity)),
                  !.missing = IF x \in deleted THEN @ \cup {x} ELSE @,
                  !.totalAmount = @ + ItemTotal(item),
                  !.orderItems = Append(@, [productId |-> x, price |-> item.price,
                                            quantity |-> item.quantity]),
                  !.midtransItems = Append(@, [id |-> x, price |-> MathRound(item.price),
                                               quantity |-> item.quantity]),
                  !.i = @ + 1,
                  !.orderId = IF last THEN OrderRef(now, ck[p].user) ELSE @,
                  !.pc = IF last THEN "gateway" ELSE "items"]]
             /\ UNCHANGED <<stock, price, carts, orders, wh, adminOps, cartOps, gw, rq, deleted, cr>>

\* The payload createTransactionWithRetry builds on every attempt from the
\* arguments checkout passes (amounts in whole currency units).
Payload(c) ==
  [order_id |-> c.orderId, gross_amount |-> MathRound(c.totalAmount),
   item_details |-> c.midtransItems]

\* A retry that generates a new reference for the attempt.
GatewayRetryNewReference(p) ==
  /\ ck[p].pc = "gateway"
  /\ IF ck[p].attempt = maxRetries - 1
     THEN CheckoutRollback(p, 500, <<"Server error during checkout">>,
                           "Failed to create payment transaction after retries")
     ELSE /\ ck' = [ck EXCEPT ![p] = [@ EXCEPT !.attempt = @ + 1,
                                                !.orderId = OrderRef(ck[p].attempt + 7, ck[p].user)]]
          /\ UNCHANGED <<stock, price, carts, orders, lock, wh, clock, adminOps, cartOps, gw, rq, deleted, cr>>

\* createTransactionWithRetry: snap.createTransaction throws on attempt i; the
\* last attempt's error reaches checkout's catch block.
GatewayFail(p) ==
  /\ ck[p].pc = "gateway"
  /\ IF ck[p].attempt = maxRetries - 1
     THEN CheckoutRollback(p, 500, <<"Server error during checkout">>,
                           "Failed to create payment transaction after retries")
     ELSE /\ ck' = [ck EXCEPT ![p] = [@ EXCEPT !.attempt = @ + 1]]
          /\ UNCHANGED <<stock, price, carts, orders, lock, wh, clock, adminOps, cartOps, gw, rq, deleted, cr>>

\* An order row whose snapshot takes each line's price from the live product
\* row when the order is written.
NewOrderLivePrices(c) ==
  [userId |-> c.user, totalAmount |-> c.totalAmount, status |-> "pending",
   midtransPaymentId |-> c.orderId,
   orderItems |-> [k \in 1..Len(c.orderItems) |->
                     [c.orderItems[k] EXCEPT !.price = price[c.orderItems[k].productId]]],
   paymentType |-> ""]

\* Order.create of lines 126-135
NewOrder(c) ==
  [userId |-> c.user, totalAmount |-> c.totalAmount, status |-> "pending",
   midtransPaymentId |-> c.orderId, orderItems |-> c.orderItems,
   paymentType |-> ""]

\* A commit that leaves the cart's lines in place.
CheckoutCommitKeepsCart(p) ==
  /\ ck[p].pc = "gateway"
  /\ stock' = Committed(ck[p].writes)
  /\ orders' = Append(orders, NewOrder(ck[p]))
  /\ lock' = ReleaseLocks(CkTx(p))
  /\ ck' = [ck EXCEPT ![p] = Finished(@, 201, <<"Order created successfully">>)]
  /\ UNCHANGED <<price, carts, wh, clock, adminOps, cartOps, gw, rq, deleted, cr>>

\* checkout, lines 137-168: snap.createTransaction answers; the cart's lines are
\* deleted, the transaction commits, the response is 201.
CheckoutCommit(p) ==
  /\ ck[p].pc = "gateway"
  /\ stock' = Committed(ck[p].writes)
  /\ orders' = Append(orders, NewOrder(ck[p]))
  /\ carts' = [carts EXCEPT ![ck[p].user] = <<>>]
  /\ lock' = ReleaseLocks(CkTx(p))
  /\ ck' = [ck EXCEPT ![p] = Finished(@, 201, <<"Order created successfully">>)]
  /\ UNCHANGED <<price, wh, clock, adminOps, cartOps, gw, rq, deleted, cr>>

\* A statement of the transaction fails (lock wait timeout, lost connection):
\* checkout's catch block rolls back and answers 500.
CheckoutStorageError(p) ==
  /\ CkOpen(p)
  /\ CheckoutRollback(p, 500, <<"Server error during checkout">>, "storage error")

(* ------------------ services/midtrans: retry loop ---------------------- *)
Min(a, b) == IF a < b THEN a ELSE b

\* A doubling delay without a ceiling.
DelayUncapped(i) == 1000 * 2^i

\* Math.min(1000 * Math.pow(2, i), 5000)
Delay(i) == Min(1000 * 2^i, 5000)

\* What snap.createTransaction can throw: a failure worth retrying (network,
\* timeout, 5xx) or the gateway's definitive rejection of the request (4xx).
ErrorKinds == {"transient", "rejected"}

RetryError(m) == "Failed to create payment transaction after " \o ToString(m) \o " retries"

\* createTransactionWithRetry is entered with maxRetries = m.
GwCall(m) ==
  /\ gw.pc = "idle"
  /\ gw' = [gw EXCEPT !.pc = "calling", !.maxRetries = m]
  /\ UNCHANGED <<stock, price, carts, orders, lock, ck, wh, clock, adminOps, cartOps, rq, deleted, cr>>

\* Loop turn i: snap.createTransaction answers, token and redirect_url are
\* returned.
GwAttemptSucceeds ==
  /\ gw.pc = "calling"
  /\ gw.i < gw.maxRetries
  /\ gw' = [gw EXCEPT !.pc = "returned", !.calls = @ + 1, !.result = "token"]
  /\ UNCHANGED <<stock, price, carts, orders, lock, ck, wh, clock, adminOps, cartOps, rq, deleted, cr>>

\* A loop that sleeps and tries again after every failure, with no last turn.
GwAttemptFailsUnbounded(kind) ==
  /\ gw.pc = "calling"
  /\ gw' = [gw EXCEPT !.calls = @ + 1, !.errors = Append(@, kind),
                      !.waits = Append(@, Delay(gw.i)), !.i = @ + 1]
  /\ UNCHANGED <<stock, price, carts, orders, lock, ck, wh, clock, adminOps, cartOps, rq, deleted, cr>>

\* Loop turn i: snap.createTransaction throws.  On the last turn the error is
\* rethrown; otherwise the loop sleeps Delay(i) and goes on to turn i + 1.
GwAttemptFails(kind) ==
  /\ gw.pc = "calling"
  /\ gw.i < gw.maxRetries
  /\ IF gw.i = gw.maxRetries - 1
     THEN gw' = [gw EXCEPT !.pc = "thrown", !.calls = @ + 1,
                           !.errors = Append(@, kind),
                           !.result = RetryError(gw.maxRetries)]
     ELSE gw' = [gw EXCEPT !.calls = @ + 1, !.errors = Append(@, kind),
                           !.waits = Append(@, Delay(gw.i)), !.i = @ + 1]
  /\ UNCHANGED <<stock, price, carts, orders, lock, ck, wh, clock, adminOps, cartOps, rq, deleted, cr>>

\* The loop ends without a turn left (line 323).
GwLoopExit ==
  /\ gw.pc = "calling"
  /\ gw.i >= gw.maxRetries
  /\ gw' = [gw EXCEPT !.pc = "thrown", !.result = "Failed to create payment transaction"]
  /\ UNCHANGED <<stock, price, carts, orders, lock, ck, wh, clock, adminOps, cartOps, rq, deleted, cr>>

(* ------------------------------ admin ---------------------------------- *)
\* adminController.updateProduct: an autocommit UPDATE of the row, which waits
\* for the row lock like any other write.
UpdateProduct(x, newStock, newPrice) ==
  /\ adminOps < MaxAdminOps
  /\ PoolFree
  /\ x \notin deleted
  /\ lock[x] = Free
  /\ stock' = [stock EXCEPT ![x] = newStock]
  /\ price' = [price EXCEPT ![x] = newPrice]
  /\ adminOps' = adminOps + 1
  /\ UNCHANGED <<carts, orders, lock, ck, wh, clock, cartOps, gw, rq, deleted, cr>>

\* routes/admin: router.use(authenticate) runs, router.use(adminAuth) is
\* commented out, so the isAdmin of the token is never consulted and the
\* controller is called for every authenticated user.
AdminRoute(isAdmin, x, newStock, newPrice) == UpdateProduct(x, newStock, newPrice)

\* adminController.deleteProduct: product.destroy() deletes the row, waiting
\* for its row lock; cart_items.productId is declared onDelete CASCADE, so
\* the cart lines of the product go with it.
RECURSIVE WithoutProduct(_, _)
WithoutProduct(lines, x) ==
  IF lines = <<>> THEN <<>>
  ELSE IF Head(lines).productId = x THEN WithoutProduct(Tail(lines), x)
  ELSE <<Head(lines)>> \o WithoutProduct(Tail(lines), x)

DeleteProduct(x) ==
  /\ adminOps < MaxAdminOps
  /\ PoolFree
  /\ x \notin deleted
  /\ lock[x] = Free
  /\ deleted' = deleted \cup {x}
  /\ carts' = [u \in Users |-> WithoutProduct(carts[u], x)]
  /\ adminOps' = adminOps + 1
  /\ UNCHANGED <<stock, price, orders, lock, ck, wh, clock, cartOps, gw, rq, cr>>

(* ----------------------------- webhook --------------------------------- *)
\* crypto.createHash('sha512').update(s).digest('hex'), taken to be collision
\* free: the digest stands for the string it was computed from.
Sha512(s) == "sha512(" \o s \o ")"

\* A comparison that accepts exactly the signatures verifySignature rejects.
AcceptsMismatch(orderId, statusCode, grossAmount, signatureKey) ==
  Sha512(orderId \o statusCode \o grossAmount \o MIDTRANS_SERVER_KEY) # signatureKey

\* services/midtrans verifySignature
verifySignature(orderId, statusCode, grossAmount, signatureKey) ==
  Sha512(orderId \o statusCode \o grossAmount \o MIDTRANS_SERVER_KEY) = signatureKey

\* webhookAuth: !order_id || !status_code || !gross_amount || !signature_key
MissingFields(b) ==
  b.order_id = "" \/ b.status_code = "" \/ b.gross_amount = "" \/ b.signature_key = ""

\* A mapping that takes every capture for a payment and guesses failure for
\* what it does not know.
StatusGuessed(ts, fs) ==
  IF ts \in {"capture", "settlement"} THEN "completed"
  ELSE IF ts = "pending" THEN "pending"
  ELSE "failed"

\* handlePaymentNotification, lines 309-328: the status the handler will write
OrderStatusFor(ts, fs) ==
  IF ts = "capture"
  THEN IF fs = "challenge" THEN "pending"
       ELSE IF fs = "accept" THEN "completed" ELSE "pending"
  ELSE IF ts = "settlement" THEN "completed"
  ELSE IF ts = "pending" THEN "pending"
  ELSE IF ts \in {"cancel", "deny", "expire"} THEN "failed"
  ELSE "pending"

\* A handler that also releases stock when a payment settles.
ReleasesOnSettlement(ts) == ts \in {"cancel", "deny", "expire", "settlement"}

\* handlePaymentNotification, lines 322-331: the branch that calls rollbackStock
CallsRollbackStock(ts) == ts \in {"cancel", "deny", "expire"}

\* Order.findOne({ where: { midtransPaymentId } }): the first matching row, 0 if none
RECURSIVE FindOrder(_, _)
FindOrder(ref, k) ==
  IF k > Len(orders) THEN 0
  ELSE IF orders[k].midtransPaymentId = ref THEN k ELSE FindOrder(ref, k + 1)

WhDone(w, code) ==
  [IdleWh EXCEPT !.pc = "done", !.body = w.body, !.order = w.order,
                 !.orderStatus = w.orderStatus, !.tx = w.tx, !.writes = w.writes,
                 !.caught = w.caught, !.res = code]

\* POST /orders/webhook: authenticateWebhook, then handlePaymentNotification
\* up to the call of rollbackStock (lines 286-330): the order is read, the
\* new status computed, and for cancel/deny/expire a transaction is opened.
WebhookReceive(h, b) ==
  /\ wh[h].pc = "idle"
  /\ \A r \in Hooks : r < h => wh[r].pc # "idle"
  /\ LET w == [wh[h] EXCEPT !.body = b]
         k == FindOrder(b.order_id, 1)
     IN IF MissingFields(b) THEN wh' = [wh EXCEPT ![h] = WhDone(w, 400)]
        ELSE IF ~verifySignature(b.order_id, b.status_code, b.gross_amount, b.signature_key)
        THEN wh' = [wh EXCEPT ![h] = WhDone(w, 401)]
        ELSE /\ PoolFree
             /\ IF k = 0 THEN wh' = [wh EXCEPT ![h] = WhDone(w, 404)]
                ELSE wh' = [wh EXCEPT ![h] = [w EXCEPT
                       !.order = k,
                       !.loaded = orders[k].status,
                       !.orderStatus = OrderStatusFor(b.transaction_status, b.fraud_status),
                       !.items = IF CallsRollbackStock(b.transaction_status)
                                 THEN orders[k].orderItems ELSE <<>>,
                       !.i = 1,
                       !.tx = IF CallsRollbackStock(b.transaction_status)
                              THEN "open" ELSE "none",
                       !.pc = IF CallsRollbackStock(b.transaction_status)
                                 /\ orders[k].orderItems # <<>>
                              THEN "read" ELSE "save"]]
  /\ UNCHANGED <<stock, price, carts, orders, lock, ck, clock, adminOps, cartOps, gw, rq, deleted, cr>>

\* rollbackStock, line 24: Product.findByPk outside any transaction
RollbackRead(h) ==
  /\ wh[h].pc = "read"
  /\ PoolFree
  /\ wh' = [wh EXCEPT ![h] = [@ EXCEPT
              !.readStock = stock[wh[h].items[wh[h].i].productId], !.pc = "write"]]
  /\ UNCHANGED <<stock, price, carts, orders, lock, ck, clock, adminOps, cartOps, gw, rq, deleted, cr>>

\* product.stock += item.quantity
StockPlus(read, q) == read + q

\* rollbackStock, lines 26-27: product.save({ transaction }).  The model
\* validator (stock min 0) rejects a negative value; the error is caught by
\* rollbackStock's own catch block, which ends the loop.
RollbackWrite(h) ==
  /\ wh[h].pc = "write"
  /\ LET item == wh[h].items[wh[h].i]
         x == item.productId
         v == StockPlus(wh[h].readStock, item.quantity)
         last == wh[h].i = Len(wh[h].items)
     IN IF v < 0
        THEN /\ wh' = [wh EXCEPT ![h] = [@ EXCEPT !.pc = "save",
                                                   !.caught = "Validation error"]]
             /\ lock' = lock
        ELSE /\ lock[x] \in {Free, WhTx(h)}
             /\ lock' = [lock EXCEPT ![x] = WhTx(h)]
             /\ wh' = [wh EXCEPT ![h] = [@ EXCEPT
                         !.writes = SetWrite(@, x, v),
                         !.i = @ + 1,
                         !.pc = IF last THEN "save" ELSE "read"]]
  /\ UNCHANGED <<stock, price, carts, orders, ck, clock, adminOps, cartOps, gw, rq, deleted, cr>>

\* A statement of rollbackStock fails (lock wait timeout, lost connection): the
\* catch block of rollbackStock logs it and returns normally.
RollbackError(h) ==
  /\ wh[h].pc \in {"read", "write"}
  /\ wh' = [wh EXCEPT ![h] = [@ EXCEPT !.pc = "save", !.caught = "storage error"]]
  /\ UNCHANGED <<stock, price, carts, orders, lock, ck, clock, adminOps, cartOps, gw, rq, deleted, cr>>

\* A save that sets the status of every order.
WebhookSaveAll(h) ==
  /\ wh[h].pc = "save"
  /\ PoolFree
  /\ orders' = [k \in 1..Len(orders) |-> [orders[k] EXCEPT !.status = wh[h].orderStatus]]
  /\ wh' = [wh EXCEPT ![h] = WhDone(@, 200)]
  /\ UNCHANGED <<stock, price, carts, lock, ck, clock, adminOps, cartOps, gw, rq, deleted, cr>>

\* handlePaymentNotification, lines 334-353: order.save() writes the fields
\* that differ from the values the order was read with, then responds 200.
\* The transaction opened for rollbackStock is neither committed nor rolled
\* back.
WebhookSave(h) ==
  /\ wh[h].pc = "save"
  /\ PoolFree
  /\ orders' = IF wh[h].orderStatus # wh[h].loaded
               THEN [orders EXCEPT ![wh[h].order].status = wh[h].orderStatus]
               ELSE orders
  /\ wh' = [wh EXCEPT ![h] = WhDone(@, 200)]
  /\ UNCHANGED <<stock, price, carts, lock, ck, clock, adminOps, cartOps, gw, rq, deleted, cr>>

\* order.save() fails: the handler's catch block responds 500.
WebhookStorageError(h) ==
  /\ wh[h].pc = "save"
  /\ wh' = [wh EXCEPT ![h] = WhDone(@, 500)]
  /\ UNCHANGED <<stock, price, carts, orders, lock, ck, clock, adminOps, cartOps, gw, rq, deleted, cr>>

\* The connection of a transaction nobody ends is closed at some point by the
\* server or with the process: the transaction is rolled back.
ConnectionDrop(h) ==
  /\ wh[h].pc = "done"
  /\ wh[h].tx = "open"
  /\ wh' = [wh EXCEPT ![h] = [@ EXCEPT !.tx = "closed", !.writes = NoWrites]]
  /\ lock' = ReleaseLocks(WhTx(h))
  /\ UNCHANGED <<stock, price, carts, orders, ck, clock, adminOps, cartOps, gw, rq, deleted, cr>>

(* ------------------------- webhook requests ---------------------------- *)
UnknownRef == "ORDER-9-9"
OrderIds == {orders[k].midtransPaymentId : k \in 1..Len(orders)}
\* (transaction_status, fraud_status) pairs: the ones the handler names, a
\* capture without fraud verdict and a status the handler does not name
Statuses ==
  {<<"capture", "accept">>, <<"capture", "challenge">>, <<"capture", "">>,
   <<"settlement", "">>, <<"pending", "">>, <<"cancel", "">>, <<"deny", "">>,
   <<"expire", "">>, <<"refund", "">>}
StatusCodes == {"200", "202"}
GrossAmount == "11"

Sign(o, c, g) == Sha512(o \o c \o g \o MIDTRANS_SERVER_KEY)

Body(o, c, g, k, st) ==
  [order_id |-> o, status_code |-> c, gross_amount |-> g, signature_key |-> k,
   transaction_status |-> st[1], fraud_status |-> st[2]]

\* Notifications as the processor signs them, for the orders that exist.
SignedBodies(sts) ==
  {Body(o, "200", GrossAmount, Sign(o, "200", GrossAmount), st) : o \in OrderIds, st \in sts}

\* Requests anybody can send: any reference, any status, and as signature_key
\* the right signature, one made without the server key, the signature of
\* another notification, or none.
Bodies ==
  {Body(o, c, GrossAmount, k, st) :
     o \in OrderIds \cup {UnknownRef, ""}, c \in StatusCodes, st \in Statuses,
     k \in {Sign(o2, c2, GrossAmount) : o2 \in OrderIds, c2 \in StatusCodes}
           \cup {Sha512(o2 \o "200" \o GrossAmount \o "?") : o2 \in OrderIds} \cup {""}}

(* --------------------------- specifications ---------------------------- *)
AdminStocks == {1}
AdminPrices == {InitPrice + 49}

CartNext ==
  \/ \E u \in Users, x \in Products, q \in 1..MaxQty : AddItemToCart(u, x, q)
  \/ \E u \in Users, x \in Products, q \in 1..MaxQty : UpdateCartItem(u, x, q)
  \/ \E u \in Users, x \in Products : RemoveFromCart(u, x)

AdminNext ==
  \E x \in Products, s \in AdminStocks, c \in AdminPrices : UpdateProduct(x, s, c)

CheckoutNext ==
  \/ \E p \in Procs, u \in TokenIds : CheckoutStart(p, u)
  \/ \E p \in Procs, now \in clock..MaxClock : CheckoutItem(p, now)
  \/ \E p \in Procs : GatewayFail(p)
  \/ \E p \in Procs : CheckoutCommit(p)
  \/ \E p \in Procs : CheckoutStorageError(p)

HookSteps ==
  \/ \E h \in Hooks : RollbackRead(h)
  \/ \E h \in Hooks : RollbackWrite(h)
  \/ \E h \in Hooks : RollbackError(h)
  \/ \E h \in Hooks : WebhookSave(h)
  \/ \E h \in Hooks : WebhookStorageError(h)
  \/ \E h \in Hooks : ConnectionDrop(h)

\* The whole path of an order: customers fill carts and check out while the
\* processor notifies that a payment settled or expired.
Next ==
  \/ \E u \in Users, x \in Products, q \in 1..MaxQty : AddItemToCart(u, x, q)
  \/ \E p \in Procs, u \in Users : CheckoutStart(p, u)
  \/ \E p \in Procs : CheckoutItem(p, clock)
  \/ \E p \in Procs : GatewayFail(p)
  \/ \E p \in Procs : CheckoutCommit(p)
  \/ \E p \in Procs : CheckoutStorageError(p)
  \/ \E h \in Hooks :
       \E b \in SignedBodies({<<"settlement", "">>, <<"expire", "">>}) :
         WebhookReceive(h, b)
  \/ HookSteps

Spec == Init /\ [][Next]_vars

\* Reconciliation alone: the store after user 1 has checked out a cart of one
\* or two lines, and then any webhook requests.
PlacedCarts ==
  {<<[productId |-> 1, quantity |-> MaxQty]>>,
   <<[productId |-> 1, quantity |-> 1], [productId |-> 2, quantity |-> 2]>>}

RECURSIVE Ordered(_, _)
\* total quantity of product x in a list of lines
Ordered(lines, x) ==
  IF lines = <<>> THEN 0
  ELSE (IF Head(lines).productId = x THEN Head(lines).quantity ELSE 0)
       + Ordered(Tail(lines), x)

RECURSIVE Amount(_)
Amount(lines) ==
  IF lines = <<>> THEN 0 ELSE Head(lines).price * Head(lines).quantity + Amount(Tail(lines))

Snapshot(cart) ==
  [k \in 1..Len(cart) |-> [productId |-> cart[k].productId, price |-> InitPrice,
                           quantity |-> cart[k].quantity]]

InitPlaced ==
  \E cart \in PlacedCarts :
    /\ stock = [x \in Products |-> InitStock - Ordered(cart, x)]
    /\ price = [x \in Products |-> InitPrice]
    /\ carts = [u \in Users |-> <<>>]
    /\ orders = <<NewOrder([IdleCk EXCEPT !.user = 1, !.orderId = OrderRef(0, 1),
                                          !.orderItems = Snapshot(cart),
                                          !.totalAmount = Amount(Snapshot(cart))])>>
    /\ lock = [x \in Products |-> Free]
    /\ ck = [p \in Procs |-> IF p = 1
                             THEN Finished([IdleCk EXCEPT !.user = 1,
                                              !.orderId = OrderRef(0, 1),
                                              !.items = [k \in 1..Len(cart) |->
                                                 [productId |-> cart[k].productId,
                                                  quantity |-> cart[k].quantity,
                                                  stock |-> InitStock,
                                                  price |-> InitPrice]]],
                                           201, <<"Order created successfully">>)
                             ELSE IdleCk]
    /\ wh = [h \in Hooks |-> IdleWh]
    /\ clock = 0
    /\ adminOps = 0
    /\ cartOps = Len(cart)
    /\ gw = IdleGw
    /\ rq = IdleRq
    /\ deleted = {}
    /\ cr = [c \in CartReqs |-> IdleCr]

NextReconcile ==
  \/ \E h \in Hooks : \E b \in Bodies : WebhookReceive(h, b)
  \/ HookSteps

SpecReconcile == InitPlaced /\ [][NextReconcile]_vars

\* The processor's notifications for the placed order, delivered one after
\* another: a request arrives when no other webhook request is being served.
NextDeliveries ==
  \/ \E h \in Hooks : \E b \in SignedBodies(Statuses) :
       /\ \A r \in Hooks : wh[r].pc \in {"idle", "done"}
       /\ WebhookReceive(h, b)
  \/ HookSteps

SpecDeliveries == InitPlaced /\ [][NextDeliveries]_vars

\* Carts, catalogue and checkout without notifications.
NextCheckout == CartNext \/ AdminNext \/ CheckoutNext

SpecCheckout == Init /\ [][NextCheckout]_vars

\* The life of a customer's orders: the customer fills and edits the cart and checks
\* out, an admin edits the catalogue before or after, the processor's
\* notifications arrive one after another.
NextOrderLife ==
  \/ \E x \in Products, q \in 1..MaxQty : AddItemToCart(1, x, q)
  \/ \E x \in Products, q \in 1..MaxQty : UpdateCartItem(1, x, q)
  \/ \E x \in Products : RemoveFromCart(1, x)
  \/ AdminNext
  \/ \E p \in Procs : CheckoutStart(p, 1)
  \/ \E p \in Procs : CheckoutItem(p, clock)
  \/ \E p \in Procs : CheckoutCommit(p)
  \/ \E h \in Hooks :
       \E b \in SignedBodies({<<"settlement", "">>, <<"expire", "">>}) :
         /\ \A r \in Hooks : wh[r].pc \in {"idle", "done"}
         /\ WebhookReceive(h, b)
  \/ \E h \in Hooks : RollbackRead(h)
  \/ \E h \in Hooks : RollbackWrite(h)
  \/ \E h \in Hooks : WebhookSave(h)
  \/ \E h \in Hooks : ConnectionDrop(h)

SpecOrderLife == Init /\ [][NextOrderLife]_vars

\* One call of createTransactionWithRetry with any maxRetries; the event loop
\* runs every continuation and timer of the call.
GwStep ==
  \/ GwAttemptSucceeds
  \/ \E kind \in ErrorKinds : GwAttemptFails(kind)
  \/ GwLoopExit

NextRetry ==
  \/ \E m \in 0..MaxRetriesArg : GwCall(m)
  \/ GwStep

SpecRetry == Init /\ [][NextRetry]_vars /\ WF_vars(GwStep)

(* --------------------------- order queries ----------------------------- *)
\* A lookup by id alone.
FindOrderById(id, u) == IF id \in 1..Len(orders) THEN id ELSE 0

\* Order.findOne({ where: { id: orderId, userId } }): the order's id, 0 if none
FindOwnOrder(id, u) ==
  IF id \in 1..Len(orders) /\ orders[id].userId = u THEN id ELSE 0

\* transaction_status values the payment processor reports on a status query
LiveStatuses == {"pending", "settlement"}

\* ids a customer asks about: the first order and one past the last
QueryIds == 1..2

\* GET /orders/:orderId, lines 207-228: the order is read for the
\* token's user; 404 without one, 400 without a payment reference, else the
\* handler awaits getTransactionStatus.
GetOrderStatusStart(u, id) ==
  /\ rq.pc \in {"idle", "done"}
  /\ PoolFree
  /\ LET k == FindOwnOrder(id, u)
         r == [IdleRq EXCEPT !.user = u, !.id = id]
     IN rq' = IF k = 0 THEN [r EXCEPT !.pc = "done", !.res = 404]
              ELSE IF orders[k].midtransPaymentId = ""
              THEN [r EXCEPT !.pc = "done", !.res = 400]
              ELSE [r EXCEPT !.pc = "live", !.status = orders[k].status]
  /\ UNCHANGED <<stock, price, carts, orders, lock, ck, wh, clock, adminOps, cartOps, gw, deleted, cr>>

\* A status request that copies the processor's status into the order.
GetOrderStatusSyncs(s) ==
  /\ rq.pc = "live"
  /\ rq' = [rq EXCEPT !.pc = "done", !.live = s, !.res = 200]
  /\ orders' = [orders EXCEPT ![rq.id].status = OrderStatusFor(s, "")]
  /\ UNCHANGED <<stock, price, carts, lock, ck, wh, clock, adminOps, cartOps, gw, deleted, cr>>

\* getTransactionStatus returned (lines 230-255): 200 with the order as it
\* was read and the processor's status.
GetOrderStatusLive(s) ==
  /\ rq.pc = "live"
  /\ rq' = [rq EXCEPT !.pc = "done", !.live = s, !.res = 200]
  /\ UNCHANGED <<stock, price, carts, orders, lock, ck, wh, clock, adminOps, cartOps, gw, deleted, cr>>

\* A handler that lets the status query's error reach its outer catch block.
GetOrderStatusRethrows ==
  /\ rq.pc = "live"
  /\ rq' = [rq EXCEPT !.pc = "done", !.error = "Failed to get transaction status",
                      !.res = 500]
  /\ UNCHANGED <<stock, price, carts, orders, lock, ck, wh, clock, adminOps, cartOps, gw, deleted, cr>>

\* getTransactionStatus threw (lines 256-274): 200 with the order as it was
\* read and a warning.
GetOrderStatusLocal ==
  /\ rq.pc = "live"
  /\ rq' = [rq EXCEPT !.pc = "done", !.error = "Failed to get transaction status",
                      !.warning = "Unable to fetch real-time status from Midtrans",
                      !.res = 200]
  /\ UNCHANGED <<stock, price, carts, orders, lock, ck, wh, clock, adminOps, cartOps, gw, deleted, cr>>

\* GET /orders, lines 176-205: the orders of the token's user.
GetOrders(u) ==
  /\ rq.pc \in {"idle", "done"}
  /\ PoolFree
  /\ rq' = [IdleRq EXCEPT !.pc = "done", !.user = u,
              !.listed = {k \in 1..Len(orders) : orders[k].userId = u},
              !.res = 200]
  /\ UNCHANGED <<stock, price, carts, orders, lock, ck, wh, clock, adminOps, cartOps, gw, deleted, cr>>

QueryNext ==
  \/ \E u \in Users, id \in QueryIds : GetOrderStatusStart(u, id)
  \/ \E s \in LiveStatuses : GetOrderStatusLive(s)
  \/ GetOrderStatusLocal
  \/ \E u \in Users : GetOrders(u)

\* The placed order's notifications arrive one after another while customers
\* ask for their orders and for the order's status.
NextStatus == NextDeliveries \/ QueryNext

SpecStatus == InitPlaced /\ [][NextStatus]_vars

\* Notifications signed without the server key, for the orders that exist.
ForgedBodies(sts) ==
  {Body(o, "200", GrossAmount, Sha512(o \o "200" \o GrossAmount \o "?"), st) :
     o \in OrderIds, st \in sts}

\* Every route that is served while orders exist: customers edit their carts
\* and check out, an admin edits the catalogue, the first customer lists the
\* orders and asks for the first order's status, and notifications, signed by
\* the processor or forged, arrive one after another.
NextWriters ==
  \/ \E u \in Users : AddItemToCart(u, 1, 1)
  \/ \E u \in Users : UpdateCartItem(u, 1, MaxQty)
  \/ \E u \in Users : RemoveFromCart(u, 1)
  \/ AdminNext
  \/ \E p \in Procs, u \in Users : CheckoutStart(p, u)
  \/ \E p \in Procs : CheckoutItem(p, clock)
  \/ \E p \in Procs : CheckoutCommit(p)
  \/ \E h \in Hooks :
       \E b \in SignedBodies({<<"settlement", "">>, <<"expire", "">>})
                  \cup ForgedBodies({<<"settlement", "">>}) :
         /\ \A r \in Hooks : wh[r].pc \in {"idle", "done"}
         /\ WebhookReceive(h, b)
  \/ \E h \in Hooks : RollbackRead(h)
  \/ \E h \in Hooks : RollbackWrite(h)
  \/ \E h \in Hooks : WebhookSave(h)
  \/ \E h \in Hooks : ConnectionDrop(h)
  \/ GetOrderStatusStart(1, 1)
  \/ GetOrderStatusLive("settlement")
  \/ GetOrderStatusLocal
  \/ GetOrders(1)

SpecWriters == Init /\ [][NextWriters]_vars

\* Carts, and product updates requested with the token of a user who is not
\* an admin.
NextNonAdmin ==
  \/ CartNext
  \/ \E x \in Products, s \in AdminStocks, c \in AdminPrices : AdminRoute(FALSE, x, s, c)

SpecNonAdmin == Init /\ [][NextNonAdmin]_vars

\* The processor sends cancel and expire notifications for the placed order
\* and they are served concurrently.
NextRace ==
  \/ \E h \in Hooks :
       \E b \in SignedBodies({<<"cancel", "">>, <<"expire", "">>}) : WebhookReceive(h, b)
  \/ HookSteps

SpecRace == InitPlaced /\ [][NextRace]_vars

\* The placed order expires while the other customer fills a cart and checks
\* out.
NextReleaseRace ==
  \/ \E x \in Products, q \in 1..MaxQty : AddItemToCart(2, x, q)
  \/ \E p \in Procs : CheckoutStart(p, 2)
  \/ \E p \in Procs : CheckoutItem(p, clock)
  \/ \E p \in Procs : CheckoutCommit(p)
  \/ \E h \in Hooks :
       \E b \in SignedBodies({<<"expire", "">>}) :
         /\ \A r \in Hooks : wh[r].pc \in {"idle", "done"}
         /\ WebhookReceive(h, b)
  \/ \E h \in Hooks : RollbackRead(h)
  \/ \E h \in Hooks : RollbackWrite(h)
  \/ \E h \in Hooks : WebhookSave(h)
  \/ \E h \in Hooks : ConnectionDrop(h)

SpecReleaseRace == InitPlaced /\ [][NextReleaseRace]_vars

\* Customers fill carts and check out while an admin deletes a product.
NextDelete ==
  \/ \E u \in Users, x \in Products, q \in 1..MaxQty : AddItemToCart(u, x, q)
  \/ \E x \in Products : DeleteProduct(x)
  \/ \E p \in Procs, u \in Users : CheckoutStart(p, u)
  \/ \E p \in Procs : CheckoutItem(p, clock)
  \/ \E p \in Procs : GatewayFail(p)
  \/ \E p \in Procs : CheckoutCommit(p)

SpecDelete == Init /\ [][NextDelete]_vars

\* Quantities as request bodies carry them.
RawQuantities == {<<"0">>, <<"1">>, <<"3">>, <<"-", "1">>}

\* The first customer's cart requests, served concurrently; a line is removed
\* only while no other cart request is being served.
NextCart ==
  \/ \E c \in CartReqs, x \in Products, raw \in RawQuantities : CartAddStart(c, 1, x, raw)
  \/ \E c \in CartReqs : CartAddFind(c)
  \/ \E c \in CartReqs : CartAddWrite(c)
  \/ \E c \in CartReqs, x \in Products, raw \in RawQuantities : CartUpdate(c, 1, x, raw)
  \/ \E x \in Products :
       /\ \A c \in CartReqs : cr[c].pc \in {"idle", "done"}
       /\ RemoveFromCart(1, x)

SpecCart == Init /\ [][NextCart]_vars

(* ------------------------------ claims --------------------------------- *)
RECURSIVE Sold(_, _)
\* total quantity of product x in the snapshots of the first n orders
Sold(x, n) == IF n = 0 THEN 0 ELSE Ordered(orders[n].orderItems, x) + Sold(x, n - 1)

NoCheckoutInFlight == \A p \in Procs : ~CkOpen(p)

\* C1: no overselling.  Without admin stock edits (and, in SpecCheckout, without
\* releases) the quantities of a product in the orders that checkouts have
\* committed never add up to more than the product's stock at the start.
C1_NoOverselling ==
  adminOps = 0 => \A x \in Products : Sold(x, Len(orders)) <= InitStock

OneLine(c, x, q) ==
  Len(c.items) = 1 /\ c.items[1].productId = x /\ c.items[1].quantity = q

\* C2: product 1 has stock 5, two customers check out 3 of it each and neither
\* request meets a storage or gateway fault: then, however the two requests
\* interleave, one is answered 201 and the other 400, one order exists and the
\* committed stock is 2.
C2_OneOfTwoSucceeds ==
  (/\ InitStock = 5
   /\ adminOps = 0
   /\ ck[1].pc = "done" /\ ck[2].pc = "done"
   /\ ck[1].user # ck[2].user
   /\ OneLine(ck[1], 1, 3) /\ OneLine(ck[2], 1, 3)
   /\ ck[1].error = "" /\ ck[2].error = "")
  => /\ {ck[1].res, ck[2].res} = {201, 400}
     /\ Len(orders) = 1
     /\ stock[1] = 2

\* C3: the committed stock of every product is never negative.
C3_StockNonNegative == \A x \in Products : stock[x] >= 0

FailStatuses == {"cancel", "deny", "expire"}
Served == {h \in Hooks : wh[h].pc # "idle"}
AllAnswered200 ==
  \A h \in Served : wh[h].pc = "done" /\ wh[h].res = 200 /\ wh[h].caught = ""

\* C4: idempotence of reconciliation.  The placed order has received the same
\* signed terminal notification N >= 2 times, one after another, no statement
\* failed, and nothing else happened: its status is the one the notification
\* stands for, and for cancel/deny/expire every product's stock has been raised by the snapshot
\* quantity exactly once (it is back at its value before the checkout), for
\* settlement and capture+accept not at all.
C4_RepeatedNotification ==
  \A h \in Served :
    LET b == wh[h].body IN
    (/\ AllAnswered200
     /\ Cardinality(Served) >= 2
     /\ \A r \in Served : wh[r].body = b
     /\ OrderStatusFor(b.transaction_status, b.fraud_status) \in {"completed", "failed"})
    => /\ orders[1].status = OrderStatusFor(b.transaction_status, b.fraud_status)
       /\ \A x \in Products :
            stock[x] = IF b.transaction_status \in FailStatuses
                       THEN InitStock
                       ELSE InitStock - Ordered(orders[1].orderItems, x)

\* C5: an order that is completed or failed keeps that status in every step.
C5_StatusMonotonic ==
  [][\A k \in 1..Len(orders) :
       orders[k].status \in {"completed", "failed"}
         => orders'[k].status = orders[k].status]_vars

\* C6: every notification for the placed order has been processed, no
\* statement failed.  If they were the pending ones and the settlement of a paid order, in whatever order
\* and however often, the order is completed; if they were the pending ones
\* and the cancel/deny/expire of an unpaid order, it is failed.
C6_FinalStatusIsOutcome ==
  LET sent == {wh[h].body.transaction_status : h \in Served} IN
  (Served = Hooks /\ AllAnswered200)
  => /\ (sent \subseteq {"pending", "settlement"} /\ "settlement" \in sent)
          => orders[1].status = "completed"
     /\ (sent \subseteq {"pending"} \cup FailStatuses /\ sent \cap FailStatuses # {})
          => orders[1].status = "failed"

GatewayError == "Failed to create payment transaction after retries"

\* C7: a checkout whose gateway call failed after the last attempt has rolled
\* back: no step of that request, and no step of any request other than the
\* commit that answers 201, changes the committed stock, orders, carts or
\* prices, and once answered the request holds no uncommitted write and no
\* row lock.
C7_GatewayFailureRollsBack ==
  /\ [](\A p \in Procs :
          (ck[p].pc = "done" /\ ck[p].res # 201)
            => ck[p].writes = NoWrites /\ \A x \in Products : lock[x] # CkTx(p))
  /\ [][\A p \in Procs :
          (ck'[p] # ck[p] /\ ck'[p].res # 201)
            => UNCHANGED <<stock, price, carts, orders>>]_vars

C7_Witness ==
  \E p \in Procs :
    /\ ck[p].pc = "done" /\ ck[p].error = GatewayError /\ ck[p].res = 500
    /\ ck[p].items # <<>>
    /\ carts[ck[p].user] # <<>>
    /\ \A x \in Products : stock[x] = InitStock
    /\ orders = <<>>

BadSignature(b) ==
  b.signature_key
    # Sha512(b.order_id \o b.status_code \o b.gross_amount \o MIDTRANS_SERVER_KEY)

NoField(b) ==
  "" \in {b.order_id, b.status_code, b.gross_amount, b.signature_key}

C9_FailureRestoresStock ==
  \A h \in Hooks :
    (/\ Len(orders) = 1
     /\ NoCheckoutInFlight
     /\ Served = {h}
     /\ wh[h].pc = "done" /\ wh[h].res = 200 /\ wh[h].caught = ""
     /\ wh[h].body.transaction_status \in FailStatuses)
    => /\ orders[1].status = "failed"
       /\ \A x \in Products : stock[x] = InitStock

\* C10: a notification whose status does not stand for a failure (settlement,
\* capture, pending, or a status the handler does not know) never opens a
\* transaction, writes no stock, takes no row lock, and no step of its
\* handling changes the committed stock; once only settlements have been
\* processed for an order, once or repeatedly, the order is completed.
C10_OnlyFailureTouchesStock ==
  /\ [](\A h \in Served :
          wh[h].body.transaction_status \notin FailStatuses
            => /\ wh[h].tx = "none"
               /\ wh[h].writes = NoWrites
               /\ \A x \in Products : lock[x] # WhTx(h))
  /\ [](\A k \in 1..Len(orders) :
          LET for == {h \in Served : wh[h].order = k} IN
          (/\ for # {}
           /\ \A h \in for : /\ wh[h].pc = "done" /\ wh[h].res = 200
                             /\ wh[h].body.transaction_status = "settlement")
            => orders[k].status = "completed")
  /\ [][\A h \in Hooks :
          (wh'[h] # wh[h] /\ wh'[h].body.transaction_status \notin FailStatuses)
            => stock' = stock]_vars

C10_Witness ==
  /\ Cardinality({h \in Served : /\ wh[h].pc = "done" /\ wh[h].res = 200
                                  /\ wh[h].order = 1
                                  /\ wh[h].body.transaction_status = "settlement"}) >= 2
  /\ orders[1].status = "completed"
  /\ \A x \in Products : stock[x] = InitStock - Ordered(orders[1].orderItems, x)

\* The table of C11, row by row.
StatusTable ==
  [p \in Statuses |->
     CASE p = <<"capture", "challenge">> -> "pending"
       [] p = <<"capture", "accept">> -> "completed"
       [] p = <<"settlement", "">> -> "completed"
       [] p = <<"pending", "">> -> "pending"
       [] p \in {<<"cancel", "">>, <<"deny", "">>, <<"expire", "">>} -> "failed"
       [] OTHER -> "pending"]

\* C11: when handlePaymentNotification saves for an order that it read as
\* pending and that is pending, the status of the order after the save is the
\* table's entry for the notification's (transaction_status, fraud_status);
\* and the status any handler is about to write is the table's entry.
C11_StatusTable ==
  /\ [](\A h \in Hooks :
          wh[h].pc \in {"read", "write", "save"}
            => wh[h].orderStatus
                 = StatusTable[<<wh[h].body.transaction_status, wh[h].body.fraud_status>>])
  /\ [][\A h \in Hooks :
          (/\ wh[h].pc = "save" /\ wh'[h].pc = "done" /\ wh'[h].res = 200
           /\ wh[h].loaded = "pending"
           /\ orders[wh[h].order].status = "pending")
            => orders'[wh[h].order].status
                 = StatusTable[<<wh[h].body.transaction_status, wh[h].body.fraud_status>>]]_vars

C11_Witness ==
  \E h, r \in Hooks :
    /\ wh[h].pc = "done" /\ wh[h].res = 200
    /\ wh[h].body.transaction_status = "refund"
    /\ wh[r].pc = "done" /\ wh[r].res = 200
    /\ wh[r].body.transaction_status = "capture" /\ wh[r].body.fraud_status = "accept"
    /\ orders[1].status = "completed"

RECURSIVE Reserved(_, _)
\* total quantity of product x in the snapshots of those of the first n orders
\* that are pending or completed
Reserved(x, n) ==
  IF n = 0 THEN 0
  ELSE (IF orders[n].status \in {"pending", "completed"}
        THEN Ordered(orders[n].orderItems, x) ELSE 0) + Reserved(x, n - 1)

\* No request is being served, no transaction is open, and no statement of
\* any request failed.
Quiescent ==
  /\ \A p \in Procs : ck[p].pc \in {"idle", "done"} /\ ck[p].error = ""
  /\ \A h \in Hooks : /\ wh[h].pc \in {"idle", "done"}
                      /\ wh[h].tx # "open"
                      /\ wh[h].caught = ""
                      /\ wh[h].res \in {0, 200}

\* C12: stock conservation.  Without admin stock edits, in every quiescent
\* state each product's committed stock is its initial stock minus the
\* snapshot quantities of the orders that are pending or completed.
C12_StockConservation ==
  (adminOps = 0 /\ Quiescent)
    => \A x \in Products : stock[x] = InitStock - Reserved(x, Len(orders))

\* The cart lines a checkout read, as (productId, unit price, quantity).
Lines(items) ==
  [k \in 1..Len(items) |->
     [productId |-> items[k].productId, price |-> items[k].price,
      quantity |-> items[k].quantity]]

\* C13: snapshot round trip.  The orderItems a checkout commits are the cart
\* lines it read, with the prices it read; and no step of any request (cart
\* edits, admin updates, later checkouts, notifications) removes an order or
\* changes the orderItems of an order that exists.
C13_SnapshotRoundTrip ==
  [][/\ Len(orders') >= Len(orders)
     /\ \A k \in 1..Len(orders) : orders'[k].orderItems = orders[k].orderItems
     /\ \A p \in Procs :
          (ck[p].pc = "gateway" /\ ck'[p].res = 201)
            => /\ Len(orders') = Len(orders) + 1
               /\ orders'[Len(orders')].orderItems = Lines(ck[p].items)]_vars

C13_Witness ==
  \E k \in 1..Len(orders) :
    /\ orders[k].orderItems[1].price = InitPrice
    /\ price[orders[k].orderItems[1].productId] # InitPrice
    /\ orders[k].status = "failed"
    /\ carts[1] # <<>>

\* A cart line whose product had less stock than the line asks for when the
\* checkout read the cart.
Short(line) == line.stock < line.quantity
HasShortLine(c) == \E k \in 1..Len(c.items) : Short(c.items[k])

\* C14: all-or-nothing reservation.  A checkout whose cart has a short line,
\* wherever in the cart, is never answered 201; no step of it changes the
\* committed stock of any product or the orders, and when it has answered it
\* holds no uncommitted decrement and no row lock.
C14_AllOrNothing ==
  /\ [](\A p \in Procs :
          (ck[p].pc = "done" /\ HasShortLine(ck[p]))
            => /\ ck[p].res \in {400, 500}
               /\ ck[p].writes = NoWrites
               /\ \A x \in Products : lock[x] # CkTx(p))
  /\ [][\A p \in Procs :
          (ck'[p] # ck[p] /\ HasShortLine(ck'[p]))
            => UNCHANGED <<stock, orders>>]_vars

C14_Witness ==
  \E p \in Procs :
    /\ ck[p].pc = "done" /\ ck[p].res = 400
    /\ Len(ck[p].items) = 2
    /\ ~Short(ck[p].items[1]) /\ Short(ck[p].items[2])
    /\ stock[ck[p].items[1].productId] = InitStock
    /\ orders = <<>>

\* C15: the cart is cleared if and only if checkout succeeds.  The step in
\* which a checkout answers 201 leaves its customer's cart without lines and
\* the other carts as they were; every other step of a checkout, and so a
\* checkout answered 404, 400 or 500, leaves every cart as it was.
C15_CartClearedIffSuccess ==
  [][\A p \in Procs :
       ck'[p] # ck[p]
         => IF ck'[p].res = 201
            THEN /\ carts'[ck'[p].user] = <<>>
                 /\ \A u \in Users \ {ck'[p].user} : carts'[u] = carts[u]
            ELSE carts' = carts]_vars

C15_Witness ==
  \E p, r \in Procs :
    /\ ck[p].pc = "done" /\ ck[p].res = 201 /\ carts[ck[p].user] = <<>>
    /\ ck[r].pc = "done" /\ ck[r].res = 500 /\ ck[r].error = GatewayError
    /\ ck[r].user # ck[p].user
    /\ carts[ck[r].user] # <<>>

RECURSIVE SumOfLines(_)
\* sum over cart lines of unit price read x quantity, in cents
SumOfLines(items) ==
  IF items = <<>> THEN 0
  ELSE Head(items).price * Head(items).quantity + SumOfLines(Tail(items))

\* C16: the order row a checkout commits carries as totalAmount the sum, over
\* the cart lines the checkout read, of the unit price it read times the
\* line's quantity; and every order's totalAmount is that sum over its own
\* snapshot.
C16_TotalIsSumOfLines ==
  /\ [](\A k \in 1..Len(orders) : orders[k].totalAmount = SumOfLines(orders[k].orderItems))
  /\ [][\A p \in Procs :
          (ck[p].pc = "gateway" /\ ck'[p].res = 201)
            => orders'[Len(orders')].totalAmount = SumOfLines(ck[p].items)]_vars

C16_Witness ==
  \E k \in 1..Len(orders) :
    /\ Len(orders[k].orderItems) = 2
    /\ orders[k].orderItems[1].price # orders[k].orderItems[2].price
    /\ orders[k].orderItems[2].quantity > 1
    /\ orders[k].totalAmount > 0

\* C17: no two orders carry the same external reference.
C17_UniqueReferences ==
  \A j, k \in 1..Len(orders) :
    j # k => orders[j].midtransPaymentId # orders[k].midtransPaymentId

GwEnded == gw.pc \in {"returned", "thrown"}

\* C18: a call of createTransactionWithRetry ends.  It calls the gateway at
\* most maxRetries times (3 by default); when it returns, it returns the token
\* of its last call, every call before that one failed and none follows; when
\* it throws, every one of its maxRetries calls has failed; and once it has
\* returned or thrown it does nothing more.
C18_RetryTerminates ==
  /\ [](gw.calls <= gw.maxRetries)
  /\ [](gw.maxRetries = maxRetries => gw.calls <= 3)
  /\ [](gw.pc = "returned" => gw.result = "token" /\ gw.calls = Len(gw.errors) + 1)
  /\ [](gw.pc = "thrown" => /\ gw.result # "token"
                            /\ gw.calls = Len(gw.errors)
                            /\ gw.calls = gw.maxRetries)
  /\ [][GwEnded => gw' = gw]_vars
  /\ (gw.pc = "calling") ~> GwEnded

C18_Witness ==
  /\ gw.pc = "thrown"
  /\ gw.maxRetries = maxRetries
  /\ gw.calls = 3
  /\ gw.result = RetryError(3)

\* C19: a definitive rejection by the gateway is not retried: the attempt that
\* met it is the call's last, and the call has thrown.
C19_RejectionNotRetried ==
  \A k \in 1..Len(gw.errors) :
    gw.errors[k] = "rejected"
      => gw.pc = "thrown" /\ k = Len(gw.errors) /\ gw.calls = k

\* The waits C20 lists, in ms, by the number of the failed attempt they follow.
Schedule(k) ==
  IF k = 1 THEN 1000 ELSE IF k = 2 THEN 2000 ELSE IF k = 3 THEN 4000 ELSE 5000

\* C20: backoff schedule.  The call has slept once after every failed attempt
\* except the one that made it throw, and the k-th sleep lasted 1 s, 2 s, 4 s
\* for k = 1, 2, 3 and 5 s from then on.
C20_BackoffSchedule ==
  /\ Len(gw.waits) = IF gw.pc = "thrown" /\ gw.errors # <<>>
                     THEN Len(gw.errors) - 1 ELSE Len(gw.errors)
  /\ \A k \in 1..Len(gw.waits) : gw.waits[k] = Schedule(k)

C20_Witness ==
  /\ gw.pc = "thrown"
  /\ gw.maxRetries = 6
  /\ gw.waits = <<1000, 2000, 4000, 5000, 5000>>

\* C21: checkout's error responses.  A finished checkout was answered 404 if
\* its token's user has no row, 400 if the cart was empty, 400 if the cart it
\* read has a short line and no statement failed before the check met it, and
\* 502 if the gateway call failed after its last attempt.
C21_CheckoutErrorCodes ==
  \A p \in Procs :
    ck[p].pc = "done"
      => /\ (ck[p].user \notin Users => ck[p].res = 404)
         /\ (ck[p].user \in Users /\ ck[p].items = <<>> => ck[p].res = 400)
         /\ (HasShortLine(ck[p]) /\ ck[p].error = "" => ck[p].res = 400)
         /\ (ck[p].error = GatewayError => ck[p].res = 502)

\* C22: the webhook route's responses.  A finished webhook request was answered
\* 400 if one of the four signed fields is missing, else 401 if the signature
\* does not match, else 404 if no order has the reference, else 500 if a
\* statement failed while it was handled and 200 otherwise.
C22_WebhookResponseCodes ==
  \A h \in Hooks :
    wh[h].pc = "done"
      => LET b == wh[h].body IN
         IF NoField(b) THEN wh[h].res = 400
         ELSE IF BadSignature(b) THEN wh[h].res = 401
         ELSE IF b.order_id \notin OrderIds THEN wh[h].res = 404
         ELSE /\ wh[h].res \in {200, 500}
              /\ (wh[h].caught # "" => wh[h].res = 500)

\* C23: reconciliation failures are not swallowed.  A cancel, deny or expire
\* notification during whose stock release a statement failed is answered
\* with a 5xx status, and does not leave its order failed.
C23_FailureNotSwallowed ==
  \A h \in Hooks :
    (/\ wh[h].pc = "done"
     /\ wh[h].body.transaction_status \in FailStatuses
     /\ wh[h].caught # "")
      => /\ wh[h].res \in 500..599
         /\ orders[wh[h].order].status # "failed"

\* C24: getOrderStatus degrades instead of failing.  A status request that
\* has read its order answers 200 with the status it read, with a warning when
\* the live query threw; and no step of a status request changes an order, a
\* product's stock or price, a cart or a row lock.
C24_StatusQueryDegrades ==
  [][rq' # rq
       => /\ UNCHANGED <<stock, price, carts, orders, lock>>
          /\ (rq'.pc = "live" => rq'.status = orders[rq'.id].status)
          /\ (rq.pc = "live"
                => /\ rq'.res = 200
                   /\ rq'.status = rq.status
                   /\ (rq'.error # "" => rq'.warning # ""))]_vars

\* A degraded answer for an order that a notification completed.
C24_Witness ==
  /\ rq.pc = "done" /\ rq.res = 200
  /\ rq.error # "" /\ rq.warning # ""
  /\ rq.status = "completed"
  /\ orders[rq.id].status = "completed"

C26_NonAdminChangesNoProduct ==
  [][adminOps' # adminOps => stock' = stock /\ price' = price]_vars

\* The order's snapshot quantities are back in the committed stock.
Released(k) ==
  \A x \in Products : stock[x] = InitStock - Sold(x, Len(orders)) + Ordered(orders[k].orderItems, x)

\* C27: the failure transition is atomic with its stock release.  With one
\* order placed, no admin edit and no statement of rollbackStock failed, in
\* every committed state the order is failed exactly when its snapshot
\* quantities have been added back to stock.
C27_FailedIffReleased ==
  (Len(orders) = 1 /\ adminOps = 0 /\ \A h \in Hooks : wh[h].caught = "")
    => (orders[1].status = "failed" <=> Released(1))

\* C28: two concurrent failure notifications release once.  Two signed
\* cancel, deny or expire notifications for the one placed order both read it
\* pending; once the first has been answered 200 and the second has run
\* rollbackStock, no statement having failed, the order's quantities are back
\* in the committed stock once and the second request has written no stock.
C28_ConcurrentFailuresReleaseOnce ==
  \A h, r \in Hooks :
    (/\ h # r
     /\ Len(orders) = 1 /\ adminOps = 0
     /\ wh[h].pc = "done" /\ wh[h].res = 200 /\ wh[h].caught = ""
     /\ wh[h].body.transaction_status \in FailStatuses
     /\ wh[r].pc = "save" /\ wh[r].loaded = "pending" /\ wh[r].caught = ""
     /\ wh[r].body.transaction_status \in FailStatuses
     /\ wh[h].order = 1 /\ wh[r].order = 1)
      => /\ Released(1)
         /\ wh[r].writes = NoWrites

\* C29: no handler leaves a transaction open.  A checkout request that has
\* been answered, and a webhook request that has been answered without any
\* statement failing, has ended its transaction: it holds no pooled
\* connection, no uncommitted write and no row lock.
C29_NoTransactionLeftOpen ==
  /\ \A p \in Procs :
       ck[p].pc = "done"
         => /\ ~CkOpen(p)
            /\ ck[p].writes = NoWrites
            /\ \A x \in Products : lock[x] # CkTx(p)
  /\ \A h \in Hooks :
       (wh[h].pc = "done" /\ wh[h].caught = "")
         => /\ wh[h].tx # "open"
            /\ wh[h].writes = NoWrites
            /\ \A x \in Products : lock[x] # WhTx(h)

\* C30: checkout holds no product row lock across the gateway call.  While a
\* checkout waits for createTransactionWithRetry, its transaction holds no row
\* lock, so another customer's decrement of the same product need not wait.
C30_NoLockAcrossGatewayCall ==
  \A p \in Procs :
    ck[p].pc = "gateway" => \A x \in Products : lock[x] # CkTx(p)

\* C31: stock release is race-free against checkout.  Whenever rollbackStock
\* has written a product's stock in its transaction, the value it wrote is
\* the product's committed stock plus the quantity it releases: a decrement a
\* checkout committed after the release read the row is not overwritten.
C31_ReleaseKeepsDecrement ==
  \A h \in Hooks :
    \A k \in 1..Len(wh[h].items) :
      LET x == wh[h].items[k].productId
      IN (k < wh[h].i /\ x \in DOMAIN wh[h].writes /\ lock[x] = WhTx(h)
            /\ Ordered(wh[h].items, x) = wh[h].items[k].quantity)
           => wh[h].writes[x] = stock[x] + wh[h].items[k].quantity

\* A webhook request that passed authenticateWebhook and found its order.
Accepted(h) == wh[h].pc # "idle" /\ wh[h].order # 0

\* C32: the transition depends only on signed content.  Two accepted webhook
\* requests with the same order_id, status_code, gross_amount and
\* signature_key compute the same order status and both release stock or
\* both do not.
C32_SignedContentDecides ==
  \A h, r \in Hooks :
    (/\ Accepted(h) /\ Accepted(r)
     /\ wh[h].body.order_id = wh[r].body.order_id
     /\ wh[h].body.status_code = wh[r].body.status_code
     /\ wh[h].body.gross_amount = wh[r].body.gross_amount
     /\ wh[h].body.signature_key = wh[r].body.signature_key)
      => /\ wh[h].orderStatus = wh[r].orderStatus
         /\ (wh[h].tx = "none") = (wh[r].tx = "none")

\* The answer GET /orders/:orderId gives when it finds no order.
NotFound(u, id) == [IdleRq EXCEPT !.pc = "done", !.user = u, !.id = id, !.res = 404]

\* C33: order reads are isolated per customer.  Every order GET /orders
\* listed belongs to the token's user, and a status request for an order id
\* that is not an order of the token's user was answered 404 with nothing of
\* any order in the response, whether or not the id exists.
C33_OrderReadsIsolated ==
  /\ (rq.pc = "done" /\ rq.id = 0)
       => \A k \in rq.listed : orders[k].userId = rq.user
  /\ (/\ rq.pc = "done" /\ rq.id # 0
      /\ ~(rq.id \in 1..Len(orders) /\ orders[rq.id].userId = rq.user))
       => rq = NotFound(rq.user, rq.id)

\* The second customer asked for the first customer's order.
C33_Witness ==
  /\ rq.pc = "done" /\ rq.user = 2 /\ rq.id = 1 /\ rq.res = 404
  /\ orders[1].userId = 1

\* C34: what a notification changes.  A step of a webhook request leaves
\* every cart and the number of orders unchanged, and changes at most the
\* status and paymentType of the order it found by its reference.
C34_NotificationFrame ==
  [][\A h \in Hooks :
       wh'[h] # wh[h]
         => /\ carts' = carts
            /\ Len(orders') = Len(orders)
            /\ \A k \in 1..Len(orders) :
                 orders'[k] # orders[k]
                   => /\ k = wh[h].order
                      /\ orders[k].midtransPaymentId = wh[h].body.order_id
                      /\ orders'[k] = [orders[k] EXCEPT
                                         !.status = orders'[k].status,
                                         !.paymentType = orders'[k].paymentType]]_vars

\* A notification completed the second order while the first stayed pending.
C34_Witness ==
  /\ Len(orders) = 2
  /\ orders[1].status = "pending" /\ orders[2].status = "completed"
  /\ \E h \in Hooks : wh[h].pc = "done" /\ wh[h].res = 200 /\ wh[h].order = 2

\* C35: a cart line whose product no longer exists aborts the checkout.  A
\* finished checkout that met a line whose product row was gone answered with
\* a 4xx status and a message naming the product, and no order carries its
\* reference.
C35_MissingProductAborts ==
  \A p \in Procs :
    (ck[p].pc = "done" /\ ck[p].missing # {})
      => /\ ck[p].res \in 400..499
         /\ \E x \in ck[p].missing : ck[p].message[Len(ck[p].message)] = x
         /\ \A k \in 1..Len(orders) : orders[k].midtransPaymentId # ck[p].orderId

\* The quantity a body carries is below 1 or not a number at all.
BelowOne(raw) == ~IsDigits(raw) \/ ParseInt(raw) < 1

\* C36: cart quantities are at least 1.  After every step every cart line
\* has quantity >= 1, and a cart request that arrives with a quantity below 1
\* is answered 400 at once and changes no cart.
C36_CartQuantityAtLeastOne ==
  [][/\ \A u \in Users : \A k \in 1..Len(carts'[u]) : carts'[u][k].quantity >= 1
     /\ \A c \in CartReqs :
          (cr[c].pc = "idle" /\ cr'[c].pc # "idle" /\ BelowOne(cr'[c].raw))
            => /\ cr'[c].pc = "done" /\ cr'[c].res = 400
               /\ carts' = carts]_vars

\* A request with quantity 0 was refused while the cart had a line.
C36_Witness ==
  \E c \in CartReqs :
    /\ cr[c].pc = "done" /\ cr[c].raw = <<"0">> /\ cr[c].res = 400
    /\ carts[1] # <<>>

\* number of lines of `lines` for product x
RECURSIVE LinesFor(_, _)
LinesFor(lines, x) ==
  IF lines = <<>> THEN 0
  ELSE (IF Head(lines).productId = x THEN 1 ELSE 0) + LinesFor(Tail(lines), x)

\* total quantity of the successful adds of product x to user u's cart among
\* the first n requests
RECURSIVE Added(_, _, _)
Added(u, x, n) ==
  IF n = 0 THEN 0
  ELSE (IF cr[n].op = "add" /\ cr[n].user = u /\ cr[n].productId = x /\ cr[n].res = 200
        THEN cr[n].quantity ELSE 0) + Added(u, x, n - 1)

\* C37: one line per product and no lost add.  When cart requests, all of
\* them adds, have been answered and nothing else touched the carts, a cart
\* has at most one line per product and the line's quantity is the sum of the
\* quantities of the adds that succeeded.
C37_AddsAccumulate ==
  (/\ cartOps = 0
   /\ \A c \in CartReqs : cr[c].pc \in {"idle", "done"} /\ cr[c].op \in {"", "add"})
    => \A u \in Users, x \in Products :
         /\ LinesFor(carts[u], x) <= 1
         /\ Ordered(carts[u], x) = Added(u, x, NumCartReqs)

\* C38: a cart line never exceeds the stock the request read.  A cart request
\* answered 200 saved a quantity that is at most the product's stock as the
\* request read it.
C38_LineWithinStockRead ==
  \A c \in CartReqs :
    (cr[c].pc = "done" /\ cr[c].res = 200) => cr[c].written <= cr[c].stock

\* sum of price x quantity over the item_details of a payload
RECURSIVE SumOfDetails(_)
SumOfDetails(details) ==
  IF details = <<>> THEN 0
  ELSE Head(details).price * Head(details).quantity + SumOfDetails(Tail(details))

\* C39: the payment request is internally consistent.  The payload of a
\* checkout that is calling the gateway has a gross_amount equal to the sum
\* of price x quantity over its item_details.
C39_PayloadConsistent ==
  \A p \in Procs :
    ck[p].pc = "gateway"
      => Payload(ck[p]).gross_amount = SumOfDetails(Payload(ck[p]).item_details)

\* C40: one payment request per checkout.  A checkout starts calling the
\* gateway once, from its loop, with the reference of the pending order row
\* it has written; every further attempt sends the same payload; the call
\* ends the request; and the order it commits carries the reference sent.
C40_OneRequestPerCheckout ==
  [][\A p \in Procs :
       /\ (ck'[p].pc = "gateway" /\ ck[p].pc # "gateway")
            => /\ ck[p].pc = "items" /\ ck'[p].attempt = 0
               /\ Payload(ck'[p]).order_id # ""
               /\ NewOrder(ck'[p]).midtransPaymentId = Payload(ck'[p]).order_id
               /\ NewOrder(ck'[p]).status = "pending"
       /\ (ck[p].pc = "gateway" /\ ck'[p].pc = "gateway" /\ ck'[p] # ck[p])
            => /\ ck'[p].attempt = ck[p].attempt + 1
               /\ Payload(ck'[p]) = Payload(ck[p])
       /\ (ck[p].pc = "gateway" /\ ck'[p].pc # "gateway")
            => /\ ck'[p].pc = "done"
               /\ Len(orders') > Len(orders)
                    => orders'[Len(orders')].midtransPaymentId = Payload(ck[p]).order_id]_vars

\* A checkout is making its last attempt.
C40_Witness ==
  \E p \in Procs :
    /\ ck[p].pc = "gateway" /\ ck[p].attempt = maxRetries - 1
    /\ Payload(ck[p]).gross_amount > 0

====
